---- MODULE Spec2Model ----
(***************************************************************************)
(* PR Agent: asynchronous analysis of a pull request.                      *)
(*                                                                         *)
(* The gateway (app/main.py) enqueues analyze_code_task with Celery and    *)
(* answers status and result lookups through celery.result.AsyncResult.    *)
(* A Celery worker runs analyze_code_task (app/tasks.py): fetch_pr_files,  *)
(* then analyze_file once per fetched file, then the summary; Celery       *)
(* stores the return value (SUCCESS) or the exception (FAILURE) in the     *)
(* result backend under the task id.                                        *)
(*                                                                         *)
(* Strings that the code takes apart are sequences of their parts: a file  *)
(* name is the sequence of its characters, a repository URL is the         *)
(* sequence of its "/"-separated segments.                                 *)
(***************************************************************************)
EXTENDS Integers, Sequences, FiniteSets, TLC

\* Bounds of the model.
MaxFiles == 2       \* changed files the provider lists for one PR
MaxIssues == 1      \* issues in one critic response
MaxTally == 1       \* largest count the critic writes in its own summary
MaxJobs == 2        \* jobs submitted side by side (QueueSpec)

VARIABLES
    pc,                 \* task id -> position of the job: none, queued, fetch, analyze,
                        \* blocked (waiting in llm.invoke for an answer that never comes), done
    args,               \* task id -> arguments of analyze_code_task.delay(...)
    runs,               \* task id -> number of times a worker started the task
    provider,           \* task id -> what the hosting provider answered (environment, recorded)
    pr_files,           \* task id -> pr_files of analyze_code_task
    analysis_results,   \* task id -> analysis_results of analyze_code_task
    total_issues,       \* task id -> total_issues of analyze_code_task
    critical_issues,    \* task id -> critical_issues of analyze_code_task
    critic_log,         \* task id -> what each analyze_file call met: the critic's answer,
                        \* or the error that kept it from calling the critic (environment, recorded)
    backend,            \* task id -> task meta stored in the Celery result backend
    query,              \* the get_results request in flight, if any
    resp                \* the last response the gateway returned

vars == <<pc, args, runs, provider, pr_files, analysis_results, total_issues,
          critical_issues, critic_log, backend, query, resp>>

execVars == <<pr_files, analysis_results, total_issues, critical_issues, critic_log>>

----------------------------------------------------------------------------
(* Values *)

PyNone == [py |-> "None"]
EmptyDict == [py |-> "{}"]
NoKey == [py |-> "no such key"]

\* Celery task states that the result backend can hold for this app.
\* task_track_started is not set, so STARTED is never written.
READY_STATES == {"SUCCESS", "FAILURE", "REVOKED"}

IssueTypeEnums == {"style", "bug", "performance", "security", "best_practice"}
IssueSeverityEnums == {"critical", "high", "medium", "low"}

\* File names, as character sequences.
FileNames == { <<"a", ".", "p", "y">>, <<"B", ".", "J", "S">>, <<"g", "o">> }

\* Content of each file at the head commit of the PR.
HeadContent(name) ==
    CASE name = <<"a", ".", "p", "y">> -> <<"x", "=", "1">>
      [] name = <<"B", ".", "J", "S">> -> << >>
      [] OTHER -> <<"#", "!">>

\* Repository URLs, as "/"-separated segments.
RepoUrls == { <<"https:", "", "github.com", "acme", "widgets">>,
              <<"https:", "", "github.com", "acme">>,
              <<"not-a-url">> }
PrNumbers == {42}

\* str(e) of what analyze_code_task.delay() raises when the broker cannot be reached.
BrokerErrors == {"Error 111 connecting to redis:6379. Connection refused.",
                 "Timeout connecting to server"}
Tokens == {"None", "ghp_secret"}

----------------------------------------------------------------------------
(* Pure functions of app/tasks.py *)

UpperCase == <<"A","B","C","D","E","F","G","H","I","J","K","L","M",
               "N","O","P","Q","R","S","T","U","V","W","X","Y","Z">>
LowerCase == <<"a","b","c","d","e","f","g","h","i","j","k","l","m",
               "n","o","p","q","r","s","t","u","v","w","x","y","z">>

\* str.lower(), one character
LowerChar(c) ==
    IF \E i \in 1..26 : UpperCase[i] = c
    THEN LowerCase[CHOOSE i \in 1..26 : UpperCase[i] = c]
    ELSE c

Lower(s) == [i \in 1..Len(s) |-> LowerChar(s[i])]

\* filename.split(".")[-1]: the text after the last ".", the whole name if there is none
SplitLast(s) ==
    LET dots == {i \in 1..Len(s) : s[i] = "."}
        last == IF dots = {} THEN 0 ELSE CHOOSE i \in dots : \A k \in dots : k <= i
    IN SubSeq(s, last + 1, Len(s))

extension_map(ext) ==
    CASE ext = <<".", "p", "y">> -> "Python"
      [] ext = <<".", "j", "s">> -> "JavaScript"
      [] ext = <<".", "t", "s">> -> "TypeScript"
      [] ext = <<".", "g", "o">> -> "Go"
      [] ext = <<".", "c", "s">> -> "C#"
      [] ext = <<".", "h", "t", "m", "l">> -> "HTML"
      [] ext = <<".", "c", "s", "s">> -> "CSS"
      [] ext = <<".", "t", "s", "x">> -> "TypeScript React"
      [] ext = <<".", "j", "s", "x">> -> "JavaScript React"
      [] OTHER -> "Unknown"

detect_language(filename) == extension_map(<<".">> \o Lower(SplitLast(filename)))

\* re.match(r"https?://github.com/([^/]+)/([^/]+)", repo_url), on the segments of the URL
ReMatch(repo_url) ==
    /\ Len(repo_url) >= 5
    /\ repo_url[1] \in {"http:", "https:"}
    /\ repo_url[2] = ""
    /\ repo_url[3] = "github.com"
    /\ repo_url[4] # ""
    /\ repo_url[5] # ""

----------------------------------------------------------------------------
(* The environment: the hosting provider and the critic *)

\* One entry of pr.get_files(), with what repo.get_contents() answers for it.
PrFile == [filename : FileNames, contents : {"file", "dir", "error"}]

SeqsUpTo(S, n) == UNION {[1..k -> S] : k \in 0..n}

Listings ==
    {l \in SeqsUpTo(PrFile, MaxFiles) :
        \A a, b \in 1..Len(l) : a # b => l[a].filename # l[b].filename}

\* What the critic can send back for one file.
RawIssues ==
    { [type |-> "bug", line |-> 1, severity |-> "critical"],
      [type |-> "style", line |-> 1, severity |-> "low"],
      [type |-> "security", line |-> 1, severity |-> "high"],
      [type |-> "typo", line |-> 1, severity |-> "blocker"] }

RawSummary == [total_issues : 0..MaxTally, critical_issues : 0..MaxTally,
               overview : {"findings"}]

NoSummary == [total_issues |-> 0, critical_issues |-> 0, overview |-> ""]

\* kind "json": the model answered with a JSON object of the expected shape;
\* kind "malformed": the answer does not parse; kind "raise": the call failed.
CriticOutcomes ==
    [kind : {"json"}, issues : SeqsUpTo(RawIssues, MaxIssues), summary : RawSummary]
    \cup [kind : {"malformed", "raise"}, issues : {<< >>}, summary : {NoSummary}]

\* The critic accepted the request and never answers.
NoResponseFromCritic == [kind |-> "no_response", issues |-> << >>, summary |-> NoSummary]

\* An exception before the critic is called (lines 137-150: ChatPromptTemplate,
\* ChatOpenAI(...) without an API key).
SetupError == [kind |-> "setup_error", issues |-> << >>, summary |-> NoSummary]

AnalyzeOutcomes == CriticOutcomes \cup {SetupError}

\* LLMResponseSchema: pydantic validation of the parsed answer
SchemaValid(o) ==
    /\ o.kind = "json"
    /\ \A i \in 1..Len(o.issues) :
          /\ o.issues[i].type \in IssueTypeEnums
          /\ o.issues[i].severity \in IssueSeverityEnums

----------------------------------------------------------------------------
(* analyze_file *)

\* An except branch that reports the failure itself as one issue.
DegradedResult_counted ==
    [issues |-> << >>,
     summary |-> [total_issues |-> 1, critical_issues |-> 0,
                  overview |-> "Error analyzing file"]]

DegradedResult ==
    [issues |-> << >>,
     summary |-> [total_issues |-> 0, critical_issues |-> 0,
                  overview |-> "Error analyzing file"]]

FileInfo(file_content, filename) ==
    [name |-> filename,
     language |-> detect_language(filename),
     size_bytes |-> Len(file_content)]

\* analyze_file without the inner try/except: a critic failure is re-raised.
analyze_file_reraise(file_content, filename, o) ==
    IF SchemaValid(o)
    THEN [raised |-> FALSE,
          value |-> [issues |-> o.issues, summary |-> o.summary,
                     file_info |-> FileInfo(file_content, filename)]]
    ELSE [raised |-> TRUE, value |-> PyNone]

\* The value analyze_file returns, or the exception it re-raises.
analyze_file(file_content, filename, o) ==
    IF o.kind = "setup_error"
    THEN [raised |-> TRUE, value |-> PyNone]
    ELSE LET analysis_result ==
                 IF SchemaValid(o)
                 THEN [issues |-> o.issues, summary |-> o.summary]
                 ELSE DegradedResult
         IN [raised |-> FALSE,
             value |-> [issues |-> analysis_result.issues,
                        summary |-> analysis_result.summary,
                        file_info |-> FileInfo(file_content, filename)]]

\* app/schemas.py, the schema imported by app/services/analyzer.py: the same
\* enumerations as app/tasks.py except that "security" is not a type.
IssueTypeEnums_schemas == {"style", "bug", "performance", "best_practice"}

SchemaValid_schemas(o) ==
    /\ o.kind = "json"
    /\ \A i \in 1..Len(o.issues) :
          /\ o.issues[i].type \in IssueTypeEnums_schemas
          /\ o.issues[i].severity \in IssueSeverityEnums

\* AICodeAnalysisService.analyze_file of app/services/analyzer.py: the model
\* dump of a valid answer (issues only), {"issues": []} on any failure of the
\* call or of the validation, with the file name attached.
AICodeAnalysisService_analyze_file(file_name, o) ==
    IF o.kind = "setup_error"
    THEN [raised |-> TRUE, value |-> PyNone]
    ELSE [raised |-> FALSE,
          value |-> [issues |-> IF SchemaValid_schemas(o) THEN o.issues ELSE << >>,
                     filename |-> file_name]]

\* The files fetch_pr_files returns for a listing: directories and files whose
\* content cannot be fetched or decoded are skipped.
\* fetch_pr_files that appends every listed file, with empty content when the
\* content was not fetched.
FetchedFiles_keep(l) ==
    [i \in 1..Len(l) |->
        [name |-> l[i].filename,
         content |-> IF l[i].contents = "file" THEN HeadContent(l[i].filename) ELSE << >>]]

FetchedFiles(l) ==
    LET kept == SelectSeq(l, LAMBDA f : f.contents = "file")
    IN [i \in 1..Len(kept) |->
            [name |-> kept[i].filename, content |-> HeadContent(kept[i].filename)]]

final_result(files, results, total, critical) ==
    [files |-> results,
     summary |-> [total_files |-> Len(files),
                  total_issues |-> total,
                  critical_issues |-> critical,
                  overview |-> [analyzed |-> Len(files), found |-> total,
                                critical |-> critical]]]

----------------------------------------------------------------------------
(* The result backend, as AsyncResult sees it *)

\* backend.get_task_meta(task_id): an unknown id reads as PENDING
get_task_meta(j) ==
    IF backend[j] = NoKey
    THEN [status |-> "PENDING", result |-> PyNone]
    ELSE backend[j]

\* A task configured to retry: the exception puts the task back on the queue.
TaskRaises_requeue(j, exc) ==
    /\ backend' = [backend EXCEPT ![j] = [status |-> "FAILURE",
                                          result |-> [exc_type |-> exc]]]
    /\ pc' = [pc EXCEPT ![j] = "queued"]

\* Celery stores the exception of a task that raised.
TaskRaises(j, exc) ==
    /\ backend' = [backend EXCEPT ![j] = [status |-> "FAILURE",
                                          result |-> [exc_type |-> exc]]]
    /\ pc' = [pc EXCEPT ![j] = "done"]

\* Celery stores the return value of a task that returned.
TaskReturns(j, value) ==
    /\ backend' = [backend EXCEPT ![j] = [status |-> "SUCCESS", result |-> value]]
    /\ pc' = [pc EXCEPT ![j] = "done"]

----------------------------------------------------------------------------
(* Initial state *)

NoArgs == [repo_url |-> << >>, pr_number |-> 0, github_token |-> "None"]
Idle == [pc |-> "idle", task_id |-> ""]
NoResponse == [op |-> "none"]
NotAsked == [outcome |-> "none", files |-> << >>]

InitJobs(ids) ==
    /\ pc = [j \in ids |-> "none"]
    /\ args = [j \in ids |-> NoArgs]
    /\ runs = [j \in ids |-> 0]
    /\ provider = [j \in ids |-> NotAsked]
    /\ pr_files = [j \in ids |-> << >>]
    /\ analysis_results = [j \in ids |-> << >>]
    /\ total_issues = [j \in ids |-> 0]
    /\ critical_issues = [j \in ids |-> 0]
    /\ critic_log = [j \in ids |-> << >>]
    /\ backend = [j \in ids |-> NoKey]
    /\ query = Idle
    /\ resp = NoResponse

\* The task ids this specification follows.
TaskIds == {"id-1"}

Init == InitJobs(TaskIds)

----------------------------------------------------------------------------
(* Gateway: app/main.py *)

\* analyze_pr that derives the task id from the request instead of drawing a
\* fresh one: a second submission takes over the id of the first.
analyze_pr_reuse(j) ==
    /\ query.pc = "idle"
    /\ \E repo_url \in RepoUrls, pr_number \in PrNumbers, github_token \in Tokens :
          /\ pc' = [pc EXCEPT ![j] = "queued"]
          /\ args' = [args EXCEPT ![j] = [repo_url |-> repo_url,
                                          pr_number |-> pr_number,
                                          github_token |-> github_token]]
          /\ resp' = [op |-> "analyze-pr", code |-> 202,
                      task_id |-> j, status |-> "PENDING"]
    /\ UNCHANGED <<runs, provider, execVars, backend, query>>

\* analyze_pr whose except branch answers with detail=str(e).
analyze_pr_leak(j) ==
    /\ query.pc = "idle"
    /\ pc[j] = "none"
    /\ \E repo_url \in RepoUrls, pr_number \in PrNumbers, github_token \in Tokens,
          enqueued \in BOOLEAN :
          IF enqueued
          THEN /\ pc' = [pc EXCEPT ![j] = "queued"]
               /\ args' = [args EXCEPT ![j] = [repo_url |-> repo_url,
                                               pr_number |-> pr_number,
                                               github_token |-> github_token]]
               /\ resp' = [op |-> "analyze-pr", code |-> 202,
                           task_id |-> j, status |-> "PENDING"]
          ELSE \E e \in BrokerErrors :
                 /\ resp' = [op |-> "analyze-pr", code |-> 500, detail |-> e]
                 /\ UNCHANGED <<pc, args>>
    /\ UNCHANGED <<runs, provider, execVars, backend, query>>

\* POST /analyze-pr. When delay() raises e, str(e) goes to the log (line 54) and
\* the HTTPException carries the fixed detail (lines 55-58).
analyze_pr(j) ==
    /\ query.pc = "idle"
    /\ pc[j] = "none"
    /\ \E repo_url \in RepoUrls, pr_number \in PrNumbers, github_token \in Tokens,
          enqueued \in BOOLEAN :
          IF enqueued
          THEN /\ pc' = [pc EXCEPT ![j] = "queued"]
               /\ args' = [args EXCEPT ![j] = [repo_url |-> repo_url,
                                               pr_number |-> pr_number,
                                               github_token |-> github_token]]
               /\ resp' = [op |-> "analyze-pr", code |-> 202,
                           task_id |-> j, status |-> "PENDING"]
          ELSE \E e \in BrokerErrors :
                 /\ resp' = [op |-> "analyze-pr", code |-> 500,
                             detail |-> "Internal Server Error, failed to create analysis task"]
                 /\ UNCHANGED <<pc, args>>
    /\ UNCHANGED <<runs, provider, execVars, backend, query>>

\* get_task_status that answers 404 when the backend holds nothing for the id.
get_task_status_404(j) ==
    /\ query.pc = "idle"
    /\ resp' = IF backend[j] = NoKey
               THEN [op |-> "status", code |-> 404, detail |-> "Task not found"]
               ELSE [op |-> "status", code |-> 200,
                     task_id |-> j, status |-> get_task_meta(j).status]
    /\ UNCHANGED <<pc, args, runs, provider, execVars, backend, query>>

\* GET /status/{task_id}
get_task_status(j) ==
    /\ query.pc = "idle"
    /\ resp' = [op |-> "status", code |-> 200,
                task_id |-> j, status |-> get_task_meta(j).status]
    /\ UNCHANGED <<pc, args, runs, provider, execVars, backend, query>>

\* get_results that calls task.forget() once it has read a ready result.
get_results_forget(j) ==
    /\ query.pc = "idle"
    /\ LET meta == get_task_meta(j)
       IN IF meta.status \in READY_STATES
          THEN /\ resp' = [op |-> "results", code |-> 200, task_id |-> j,
                           status |-> meta.status,
                           results |-> IF meta.status = "SUCCESS"
                                       THEN meta.result ELSE EmptyDict]
               /\ backend' = [backend EXCEPT ![j] = NoKey]
               /\ UNCHANGED query
          ELSE /\ query' = [pc |-> "line 101", task_id |-> j]
               /\ UNCHANGED <<resp, backend>>
    /\ UNCHANGED <<pc, args, runs, provider, execVars>>

\* get_results that reads the result with task.get(): the exception of a failed
\* task is raised in the handler and answered with a 500.
get_results_get(j) ==
    /\ query.pc = "idle"
    /\ LET meta == get_task_meta(j)
       IN IF meta.status \in READY_STATES
          THEN /\ resp' = IF meta.status = "SUCCESS"
                          THEN [op |-> "results", code |-> 200, task_id |-> j,
                                status |-> meta.status, results |-> meta.result]
                          ELSE [op |-> "results", code |-> 500,
                                detail |-> "Internal Server Error, failed to get task results"]
               /\ UNCHANGED query
          ELSE /\ query' = [pc |-> "line 101", task_id |-> j]
               /\ UNCHANGED resp
    /\ UNCHANGED <<pc, args, runs, provider, execVars, backend>>

\* GET /results/{task_id}, up to the first read of task.status (line 92).
\* AsyncResult caches the meta only when its state is a ready state, so in a
\* ready state the rest of the handler reads the cache and the response is
\* built from this one read; otherwise line 101 reads the backend again.
get_results(j) ==
    /\ query.pc = "idle"
    /\ LET meta == get_task_meta(j)
       IN IF meta.status \in READY_STATES
          THEN /\ resp' = [op |-> "results", code |-> 200, task_id |-> j,
                           status |-> meta.status,
                           results |-> IF meta.status = "SUCCESS"
                                       THEN meta.result ELSE EmptyDict]
               /\ UNCHANGED query
          ELSE /\ query' = [pc |-> "line 101", task_id |-> j]
               /\ UNCHANGED resp
    /\ UNCHANGED <<pc, args, runs, provider, execVars, backend>>

\* GET /results/{task_id}, lines 99-103: the second read of task.status
get_results_return ==
    /\ query.pc = "line 101"
    /\ resp' = [op |-> "results", code |-> 200, task_id |-> query.task_id,
                status |-> get_task_meta(query.task_id).status,
                results |-> EmptyDict]
    /\ query' = Idle
    /\ UNCHANGED <<pc, args, runs, provider, execVars, backend>>

----------------------------------------------------------------------------
(* Worker: analyze_code_task in app/tasks.py *)

\* A worker takes the task from the queue and starts it.
Dequeue(j) ==
    /\ pc[j] = "queued"
    /\ pc' = [pc EXCEPT ![j] = "fetch"]
    /\ runs' = [runs EXCEPT ![j] = @ + 1]
    /\ UNCHANGED <<args, provider, execVars, backend, query, resp>>

\* fetch_pr_files whose outer except returns an empty list instead of raising.
fetch_pr_files_swallow(j) ==
    /\ pc[j] = "fetch"
    /\ IF ~ReMatch(args[j].repo_url)
       THEN /\ pc' = [pc EXCEPT ![j] = "analyze"]
            /\ UNCHANGED <<provider, pr_files, backend>>
       ELSE \E resolves \in BOOLEAN :
              IF ~resolves
              THEN /\ pc' = [pc EXCEPT ![j] = "analyze"]
                   /\ provider' = [provider EXCEPT ![j] = [outcome |-> "error", files |-> << >>]]
                   /\ UNCHANGED <<pr_files, backend>>
              ELSE \E l \in Listings :
                     /\ provider' = [provider EXCEPT ![j] = [outcome |-> "ok", files |-> l]]
                     /\ pr_files' = [pr_files EXCEPT ![j] = FetchedFiles(l)]
                     /\ pc' = [pc EXCEPT ![j] = "analyze"]
                     /\ UNCHANGED backend
    /\ UNCHANGED <<args, runs, analysis_results, total_issues, critical_issues,
                   critic_log, query, resp>>

\* fetch_pr_files that returns the files gathered so far when the provider fails.
fetch_pr_files_partial(j) ==
    /\ pc[j] = "fetch"
    /\ IF ~ReMatch(args[j].repo_url)
       THEN /\ TaskRaises(j, "ValueError")
            /\ UNCHANGED <<provider, pr_files>>
       ELSE \E resolves \in BOOLEAN, l \in Listings :
              /\ provider' = [provider EXCEPT ![j] =
                                 [outcome |-> IF resolves THEN "ok" ELSE "error",
                                  files |-> l]]
              /\ pr_files' = [pr_files EXCEPT ![j] = FetchedFiles(l)]
              /\ pc' = [pc EXCEPT ![j] = "analyze"]
              /\ UNCHANGED backend
    /\ UNCHANGED <<args, runs, analysis_results, total_issues, critical_issues,
                   critic_log, query, resp>>

\* Line 249: fetch_pr_files(repo_url, pr_number, github_token)
\* fetch_pr_files whose provider error carries the credentials of the request.
fetch_pr_files_echo(j) ==
    /\ pc[j] = "fetch"
    /\ IF ~ReMatch(args[j].repo_url)
       THEN /\ TaskRaises(j, "ValueError")
            /\ UNCHANGED <<provider, pr_files>>
       ELSE \E resolves \in BOOLEAN :
              IF ~resolves
              THEN /\ TaskRaises(j, args[j].github_token)
                   /\ provider' = [provider EXCEPT ![j] = [outcome |-> "error", files |-> << >>]]
                   /\ UNCHANGED pr_files
              ELSE \E l \in Listings :
                     /\ provider' = [provider EXCEPT ![j] = [outcome |-> "ok", files |-> l]]
                     /\ pr_files' = [pr_files EXCEPT ![j] = FetchedFiles(l)]
                     /\ pc' = [pc EXCEPT ![j] = "analyze"]
                     /\ UNCHANGED backend
    /\ UNCHANGED <<args, runs, analysis_results, total_issues, critical_issues,
                   critic_log, query, resp>>

fetch_pr_files(j) ==
    /\ pc[j] = "fetch"
    /\ IF ~ReMatch(args[j].repo_url)
       THEN /\ TaskRaises(j, "ValueError")
            /\ UNCHANGED <<provider, pr_files>>
       ELSE \E resolves \in BOOLEAN :
              IF ~resolves
              THEN /\ TaskRaises(j, "GithubException")
                   /\ provider' = [provider EXCEPT ![j] = [outcome |-> "error", files |-> << >>]]
                   /\ UNCHANGED pr_files
              ELSE \E l \in Listings :
                     /\ provider' = [provider EXCEPT ![j] = [outcome |-> "ok", files |-> l]]
                     /\ pr_files' = [pr_files EXCEPT ![j] = FetchedFiles(l)]
                     /\ pc' = [pc EXCEPT ![j] = "analyze"]
                     /\ UNCHANGED backend
    /\ UNCHANGED <<args, runs, analysis_results, total_issues, critical_issues,
                   critic_log, query, resp>>

\* The loop collecting each result at the front of analysis_results.
analyze_next_file_prepend(j) ==
    /\ pc[j] = "analyze"
    /\ Len(analysis_results[j]) < Len(pr_files[j])
    /\ LET file_info == pr_files[j][Len(analysis_results[j]) + 1]
       IN \E o \in AnalyzeOutcomes :
            LET result == analyze_file(file_info.content, file_info.name, o)
            IN IF result.raised
               THEN /\ TaskRaises(j, "Exception")
                    /\ critic_log' = [critic_log EXCEPT ![j] = Append(@, o)]
                    /\ UNCHANGED <<pr_files, analysis_results, total_issues,
                                   critical_issues>>
               ELSE /\ analysis_results' =
                          [analysis_results EXCEPT ![j] = <<result.value>> \o @]
                    /\ total_issues' =
                          [total_issues EXCEPT ![j] = @ + result.value.summary.total_issues]
                    /\ critical_issues' =
                          [critical_issues EXCEPT ![j] = @ + result.value.summary.critical_issues]
                    /\ critic_log' = [critic_log EXCEPT ![j] = Append(@, o)]
                    /\ UNCHANGED <<pr_files, backend, pc>>
    /\ UNCHANGED <<args, runs, provider, query, resp>>

\* Lines 256-262: one iteration of the loop over pr_files
analyze_next_file(j) ==
    /\ pc[j] = "analyze"
    /\ Len(analysis_results[j]) < Len(pr_files[j])
    /\ LET file_info == pr_files[j][Len(analysis_results[j]) + 1]
       IN \E o \in AnalyzeOutcomes :
            LET result == analyze_file(file_info.content, file_info.name, o)
            IN IF result.raised
               THEN /\ TaskRaises(j, "Exception")
                    /\ critic_log' = [critic_log EXCEPT ![j] = Append(@, o)]
                    /\ UNCHANGED <<pr_files, analysis_results, total_issues,
                                   critical_issues>>
               ELSE /\ analysis_results' =
                          [analysis_results EXCEPT ![j] = Append(@, result.value)]
                    /\ total_issues' =
                          [total_issues EXCEPT ![j] = @ + result.value.summary.total_issues]
                    /\ critical_issues' =
                          [critical_issues EXCEPT ![j] = @ + result.value.summary.critical_issues]
                    /\ critic_log' = [critic_log EXCEPT ![j] = Append(@, o)]
                    /\ UNCHANGED <<pr_files, backend, pc>>
    /\ UNCHANGED <<args, runs, provider, query, resp>>

\* Line 155, when the critic never answers: ChatOpenAI is built without a
\* timeout (lines 146-150) and the task has no time limit, so llm.invoke does
\* not return and the worker stays in it.
llm_invoke_blocks(j) ==
    /\ pc[j] = "analyze"
    /\ Len(analysis_results[j]) < Len(pr_files[j])
    /\ pc' = [pc EXCEPT ![j] = "blocked"]
    /\ critic_log' = [critic_log EXCEPT ![j] = Append(@, NoResponseFromCritic)]
    /\ UNCHANGED <<args, runs, provider, pr_files, analysis_results, total_issues,
                   critical_issues, backend, query, resp>>

\* analyze_code_task that treats an empty list of files as an error.
return_final_result_nonempty(j) ==
    /\ pc[j] = "analyze"
    /\ Len(analysis_results[j]) = Len(pr_files[j])
    /\ IF pr_files[j] = << >>
       THEN TaskRaises(j, "ValueError")
       ELSE TaskReturns(j, final_result(pr_files[j], analysis_results[j],
                                        total_issues[j], critical_issues[j]))
    /\ UNCHANGED <<args, runs, provider, execVars, query, resp>>

\* Lines 264-274: the final report is returned and Celery stores it
return_final_result(j) ==
    /\ pc[j] = "analyze"
    /\ Len(analysis_results[j]) = Len(pr_files[j])
    /\ TaskReturns(j, final_result(pr_files[j], analysis_results[j],
                                   total_issues[j], critical_issues[j]))
    /\ UNCHANGED <<args, runs, provider, execVars, query, resp>>

----------------------------------------------------------------------------
(* The log: what the logger calls of main.py and tasks.py have written for a job *)

\* One log record: the statement (file, line) and the values it interpolates.
LogLine(file, line) ==
    [file |-> file, line |-> line, repo_url |-> << >>, pr_number |-> 0,
     task_id |-> "", filename |-> << >>, count |-> 0, text |-> ""]

\* main.py lines 38 and 46
GatewayLines(j) ==
    IF pc[j] = "none" THEN << >>
    ELSE << [LogLine("main.py", 38) EXCEPT !.pr_number = args[j].pr_number,
                                           !.repo_url = args[j].repo_url],
            [LogLine("main.py", 46) EXCEPT !.task_id = j] >>

\* tasks.py lines 237 and 277 (and 181): str(e) of the exception that ends the task
RaiseLines(j, lines) ==
    [i \in 1..Len(lines) |->
        [LogLine("tasks.py", lines[i]) EXCEPT !.text = backend[j].result.exc_type]]

\* tasks.py line 228, one warning per listed file whose content was not fetched
RECURSIVE WarningLines(_)
WarningLines(l) ==
    IF l = << >> THEN << >>
    ELSE (IF Head(l).contents = "error"
          THEN << [LogLine("tasks.py", 228) EXCEPT !.filename = Head(l).filename,
                                                   !.text = "error"] >>
          ELSE << >>) \o WarningLines(Tail(l))

\* tasks.py lines 189-237
FetchLines(j) ==
    << [LogLine("tasks.py", 189) EXCEPT !.pr_number = args[j].pr_number,
                                        !.repo_url = args[j].repo_url] >>
    \o (IF pc[j] = "fetch" THEN << >>
        ELSE IF provider[j].outcome = "ok"
        THEN WarningLines(provider[j].files)
             \o << [LogLine("tasks.py", 233) EXCEPT !.count = Len(pr_files[j])] >>
        ELSE RaiseLines(j, <<237, 277>>))

\* tasks.py lines 137-181, for the calls of analyze_file made so far
RECURSIVE AnalyzeLines(_, _, _)
AnalyzeLines(j, log, files) ==
    IF log = << >> THEN << >>
    ELSE LET o == Head(log)
             started == [LogLine("tasks.py", 137) EXCEPT !.filename = Head(files).name]
             failed == [LogLine("tasks.py", 160) EXCEPT !.text = o.kind]
             completed == [LogLine("tasks.py", 177) EXCEPT !.filename = Head(files).name]
         IN (CASE o.kind = "setup_error" -> <<started>> \o RaiseLines(j, <<181, 277>>)
               [] o.kind = "no_response" -> <<started>>
               [] SchemaValid(o) -> <<started, completed>>
               [] OTHER -> <<started, failed, completed>>)
            \o AnalyzeLines(j, Tail(log), Tail(files))

\* Everything logged for job j so far, in order.
LogLines(j) ==
    GatewayLines(j)
    \o (IF pc[j] \in {"none", "queued"} THEN << >>
        ELSE << [LogLine("tasks.py", 244) EXCEPT !.pr_number = args[j].pr_number,
                                                 !.repo_url = args[j].repo_url],
                [LogLine("tasks.py", 246) EXCEPT !.pr_number = args[j].pr_number] >>
             \o FetchLines(j)
             \o AnalyzeLines(j, critic_log[j], pr_files[j]))

----------------------------------------------------------------------------

Next ==
    \/ \E j \in DOMAIN pc : analyze_pr(j)
    \/ \E j \in DOMAIN pc : get_task_status(j)
    \/ \E j \in DOMAIN pc : get_results(j)
    \/ get_results_return
    \/ \E j \in DOMAIN pc : Dequeue(j)
    \/ \E j \in DOMAIN pc : fetch_pr_files(j)
    \/ \E j \in DOMAIN pc : analyze_next_file(j)
    \/ \E j \in DOMAIN pc : llm_invoke_blocks(j)
    \/ \E j \in DOMAIN pc : return_final_result(j)

Spec == Init /\ [][Next]_vars

\* A worker that has taken a task runs it: every step of analyze_code_task that
\* can be taken is taken, and (the assumption of C15) a queued task is taken.
WorkerFairness ==
    \A j \in TaskIds :
        /\ WF_vars(Dequeue(j))
        /\ WF_vars(fetch_pr_files(j))
        /\ WF_vars(analyze_next_file(j))
        /\ WF_vars(return_final_result(j))

FairSpec == Spec /\ WorkerFairness

----------------------------------------------------------------------------
(* Properties *)

Status(j) == get_task_meta(j).status

IsReport(r) == "files" \in DOMAIN r

\* The fetch step of job j raised.
FetchFailed(j) == pc[j] = "done" /\ provider[j].outcome # "ok"

RECURSIVE SumIssues(_)
SumIssues(files) ==
    IF files = << >> THEN 0
    ELSE Len(Head(files).issues) + SumIssues(Tail(files))

CriticalIn(issues) ==
    Cardinality({i \in 1..Len(issues) : issues[i].severity = "critical"})

RECURSIVE SumCritical(_)
SumCritical(files) ==
    IF files = << >> THEN 0
    ELSE CriticalIn(Head(files).issues) + SumCritical(Tail(files))

\* C1: in every stored report, summary.total_files is the number of entries of
\* files, summary.total_issues is the sum of the lengths of their issue lists and
\* summary.critical_issues is the number of listed issues of severity critical.
C1_SummaryRecomputedFromIssues ==
    \A j \in DOMAIN pc :
        Status(j) = "SUCCESS" =>
            LET report == backend[j].result
            IN /\ report.summary.total_files = Len(report.files)
               /\ report.summary.total_issues = SumIssues(report.files)
               /\ report.summary.critical_issues = SumCritical(report.files)

\* The critic call for a file failed: the call raised, or its answer did not
\* parse into the schema.
CriticFailed(o) == o.kind \in {"raise", "malformed", "json"} /\ ~SchemaValid(o)

\* The entry of a file whose critic answer o was accepted.
AcceptedEntry(file, o) ==
    [issues |-> o.issues, summary |-> o.summary,
     file_info |-> [name |-> file.name, language |-> detect_language(file.name),
                    size_bytes |-> Len(file.content)]]

\* Job j is over and its fetch step returned.
AnalysisOver(j) == pc[j] = "done" /\ provider[j].outcome = "ok"

\* C2: when the critic fails for file i and succeeds for every other file, the
\* job is SUCCESS, the report has one entry per fetched file, entry i has no
\* issues and every other entry is the entry of its own accepted answer.
C2_DegradeNotFail ==
    \A j \in DOMAIN pc :
        AnalysisOver(j) =>
            \A i \in 1..Len(critic_log[j]) :
                ( /\ CriticFailed(critic_log[j][i])
                  /\ \A k \in 1..Len(critic_log[j]) :
                        k # i => SchemaValid(critic_log[j][k]) )
                => /\ Status(j) = "SUCCESS"
                   /\ IsReport(backend[j].result)
                   /\ Len(backend[j].result.files) = Len(pr_files[j])
                   /\ Len(critic_log[j]) = Len(pr_files[j])
                   /\ backend[j].result.files[i].issues = << >>
                   /\ \A k \in 1..Len(critic_log[j]) :
                        k # i => backend[j].result.files[k]
                                   = AcceptedEntry(pr_files[j][k], critic_log[j][k])

\* Two files, the critic raised for the second and found an issue in the first.
C2_Witness ==
    \E j \in DOMAIN pc :
        /\ AnalysisOver(j)
        /\ Len(critic_log[j]) = 2
        /\ critic_log[j][2].kind = "raise"
        /\ SchemaValid(critic_log[j][1])
        /\ critic_log[j][1].issues # << >>
        /\ Status(j) = "SUCCESS"

\* C3: after a failed fetch the job is FAILURE, the backend holds no report for
\* its id and no response of the result operation for its id carries one.
C3_FetchFailureIsTerminal ==
    \A j \in DOMAIN pc :
        FetchFailed(j) =>
            /\ Status(j) = "FAILURE"
            /\ ~IsReport(backend[j].result)
            /\ (resp.op = "results" /\ resp.task_id = j) => resp.results = EmptyDict

\* A job whose URL did not parse, queried for its result after it failed.
C3_Witness ==
    \E j \in DOMAIN pc :
        /\ FetchFailed(j)
        /\ ~ReMatch(args[j].repo_url)
        /\ resp.op = "results" /\ resp.task_id = j /\ resp.status = "FAILURE"

\* A job whose repository or PR the provider could not resolve.
C3_WitnessUnresolved ==
    \E j \in DOMAIN pc : FetchFailed(j) /\ provider[j].outcome = "error"

\* C4: a response of the result operation that reports SUCCESS carries the
\* stored report of the job, never an empty results object.
C4_SuccessCarriesReport ==
    (resp.op = "results" /\ resp.code = 200 /\ resp.status = "SUCCESS") =>
        /\ resp.results # EmptyDict
        /\ resp.results = backend[resp.task_id].result

\* The files of a listing whose content was fetched, in the provider's order.
Kept(l) == SelectSeq(l, LAMBDA f : f.contents = "file")

\* C5: entry k of analysis_results carries the name of the k-th analyzed file,
\* and the files of a stored report are the fetched files in the order in which
\* the provider listed them.
C5_OrderPreserved ==
    \A j \in DOMAIN pc :
        /\ \A k \in 1..Len(analysis_results[j]) :
              analysis_results[j][k].file_info.name = pr_files[j][k].name
        /\ Status(j) = "SUCCESS" =>
              LET files == backend[j].result.files
                  kept == Kept(provider[j].files)
              IN /\ Len(files) = Len(kept)
                 /\ \A k \in 1..Len(files) : files[k].file_info.name = kept[k].filename

\* A report of two files, the first degraded and the second accepted, listed by
\* the provider in an order that is not the alphabetical one.
C5_Witness ==
    \E j \in DOMAIN pc :
        /\ Status(j) = "SUCCESS"
        /\ Len(provider[j].files) = 2
        /\ Len(backend[j].result.files) = 2
        /\ provider[j].files[1].filename = <<"g", "o">>
        /\ provider[j].files[2].filename = <<"a", ".", "p", "y">>
        /\ CriticFailed(critic_log[j][1])
        /\ SchemaValid(critic_log[j][2])

Terminal(j) == Status(j) \in {"SUCCESS", "FAILURE"}

\* What the status and result operations answer for a finished job, from the
\* stored meta alone.
StatusAnswer(j) ==
    [op |-> "status", code |-> 200, task_id |-> j, status |-> backend[j].status]

ResultsAnswer(j) ==
    [op |-> "results", code |-> 200, task_id |-> j, status |-> backend[j].status,
     results |-> IF backend[j].status = "SUCCESS" THEN backend[j].result ELSE EmptyDict]

\* C6: for a job that is SUCCESS or FAILURE, every status and result query
\* answers from the stored meta alone, repeats the previous answer to the same
\* query, and leaves the job, its runs and the backend as they were.
C6_IdempotentQuerying ==
    [][\A j \in DOMAIN pc :
          Terminal(j) =>
            /\ get_task_status(j) =>
                  /\ resp' = StatusAnswer(j)
                  /\ (resp.op = "status" /\ resp.task_id = j /\ resp.status = Status(j))
                        => resp' = resp
                  /\ UNCHANGED <<pc, runs, backend, execVars>>
            /\ get_results(j) =>
                  /\ resp' = ResultsAnswer(j)
                  /\ query' = Idle
                  /\ (resp.op = "results" /\ resp.task_id = j
                        /\ (resp.results # EmptyDict \/ resp.status = "FAILURE"))
                        => resp' = resp
                  /\ UNCHANGED <<pc, runs, backend, execVars>>]_vars

\* A result answer for a finished job: the report of a succeeded job.
C6_Witness ==
    \E j \in DOMAIN pc :
        /\ Status(j) = "SUCCESS"
        /\ resp = ResultsAnswer(j)
        /\ runs[j] = 1

Rank(p) ==
    CASE p = "none" -> 0
      [] p = "queued" -> 1
      [] p \in {"fetch", "analyze", "blocked"} -> 2
      [] p = "done" -> 3

StoredState(meta) == IF meta = NoKey THEN "PENDING" ELSE meta.status

\* C7: a job moves only forward through queued (Pending), fetch and analyze
\* (Running) and done (Succeeded or Failed); the stored state is SUCCESS or
\* FAILURE exactly when the job is done, the stored meta of a done job never
\* changes, and a worker starts each job at most once.
C7_TerminalStatesAbsorb ==
    [][\A j \in DOMAIN pc :
          /\ Rank(pc'[j]) \in {Rank(pc[j]), Rank(pc[j]) + 1}
          /\ pc[j] = "done" => (pc'[j] = "done" /\ backend'[j] = backend[j])
          /\ Terminal(j) => backend'[j] = backend[j]
          /\ (StoredState(backend'[j]) \in {"SUCCESS", "FAILURE"}) <=> (pc'[j] = "done")
          /\ runs'[j] <= 1
          /\ runs'[j] >= runs[j]]_vars

\* A failed job that was queried after it failed.
C7_Witness ==
    \E j \in DOMAIN pc :
        /\ pc[j] = "done"
        /\ runs[j] = 1
        /\ resp = [op |-> "status", code |-> 200, task_id |-> j, status |-> "FAILURE"]

EmptyAnswer(j, status) ==
    [op |-> "results", code |-> 200, task_id |-> j, status |-> status,
     results |-> EmptyDict]

C8_WitnessRunning ==
    \E j \in DOMAIN pc :
        /\ pc[j] = "analyze"
        /\ resp = EmptyAnswer(j, "PENDING")

\* The number of times the critic was called for job j.
CriticCalls(j) ==
    Cardinality({i \in 1..Len(critic_log[j]) : critic_log[j][i].kind # "setup_error"})

\* C9: the critic is called and results are collected only after the fetch
\* step has returned its files; after a failed fetch the critic was never
\* called, nothing was collected and no report is stored.
C9_FetchPrecedesAnalyze ==
    \A j \in DOMAIN pc :
        /\ (CriticCalls(j) > 0 \/ critic_log[j] # << >> \/ analysis_results[j] # << >>)
              => (provider[j].outcome = "ok" /\ pc[j] \in {"analyze", "blocked", "done"})
        /\ FetchFailed(j) =>
              /\ CriticCalls(j) = 0
              /\ critic_log[j] = << >>
              /\ analysis_results[j] = << >>
              /\ backend[j] # NoKey /\ ~IsReport(backend[j].result)

\* The provider failed to resolve the PR of a job that a worker had started.
C9_Witness ==
    \E j \in DOMAIN pc :
        /\ FetchFailed(j)
        /\ provider[j].outcome = "error"
        /\ runs[j] = 1
        /\ CriticCalls(j) = 0

\* C10: a job whose fetch step succeeded ends SUCCESS, whatever goes wrong in
\* the analysis of one of its files.
C10_AnalyzeNeverFailsJob ==
    \A j \in DOMAIN pc :
        (provider[j].outcome = "ok" /\ pc[j] = "done") => Status(j) = "SUCCESS"

----------------------------------------------------------------------------
(* Two jobs side by side.  The provider and the critic answer from a small   *)
(* set here, so that the jobs, not their data, make up the state space.      *)

\* Task ids are uuid4 strings; these stand for the ones drawn.
Uuids == <<"id-1", "id-2", "id-3">>

QueueIds == {Uuids[i] : i \in 1..MaxJobs}

QueueArgs ==
    [repo_url : {<<"https:", "", "github.com", "acme", "widgets">>, <<"not-a-url">>},
     pr_number : PrNumbers, github_token : Tokens]

QueueListings ==
    { << >>, <<[filename |-> <<"a", ".", "p", "y">>, contents |-> "file"]>> }

QueueOutcomes ==
    { [kind |-> "raise", issues |-> << >>, summary |-> NoSummary],
      [kind |-> "json",
       issues |-> <<[type |-> "bug", line |-> 1, severity |-> "critical"]>>,
       summary |-> [total_issues |-> 1, critical_issues |-> 1, overview |-> "findings"]] }

Last(q) == q[Len(q)]

InitQueue == InitJobs(QueueIds)

NextQueue ==
    \/ \E j \in DOMAIN pc : analyze_pr(j) /\ args'[j] \in QueueArgs \cup {NoArgs}
    \/ \E j \in DOMAIN pc : get_task_status(j)
    \/ \E j \in DOMAIN pc : get_results(j)
    \/ get_results_return
    \/ \E j \in DOMAIN pc : Dequeue(j)
    \/ \E j \in DOMAIN pc : fetch_pr_files(j) /\ provider'[j].files \in QueueListings
    \/ \E j \in DOMAIN pc : analyze_next_file(j) /\ Last(critic_log'[j]) \in QueueOutcomes
    \/ \E j \in DOMAIN pc : llm_invoke_blocks(j)
    \/ \E j \in DOMAIN pc : return_final_result(j)

QueueSpec == InitQueue /\ [][NextQueue]_vars

\* Everything the system holds about job j.
JobState(j) ==
    <<pc[j], args[j], runs[j], provider[j], pr_files[j], analysis_results[j],
      total_issues[j], critical_issues[j], critic_log[j], backend[j]>>

\* C11: a successful submit answers 202 with status PENDING and a task id that
\* no earlier submit was given, leaves that job queued with nothing stored and
\* no run yet, and touches no other job; a worker starts each job at most once;
\* no step changes two jobs; and submit is possible whatever state the other
\* jobs are in.
C11_SubmitIssuesFreshIndependentJob ==
    /\ [][\A j \in DOMAIN pc :
            /\ (analyze_pr(j) /\ resp'.code = 202) =>
                  /\ resp' = [op |-> "analyze-pr", code |-> 202,
                              task_id |-> j, status |-> "PENDING"]
                  /\ pc[j] = "none" /\ backend[j] = NoKey /\ runs[j] = 0
                  /\ pc'[j] = "queued" /\ backend'[j] = NoKey /\ runs'[j] = 0
                  /\ \A k \in DOMAIN pc \ {j} : JobState(k)' = JobState(k)
            /\ runs'[j] <= 1
            /\ pc[j] # "none" => pc'[j] # "none"
            /\ \A k \in DOMAIN pc \ {j} :
                  ~(JobState(j)' # JobState(j) /\ JobState(k)' # JobState(k))]_vars
    /\ [](\A j \in DOMAIN pc :
            (query.pc = "idle" /\ pc[j] = "none") => ENABLED analyze_pr(j))

\* The same repository and PR submitted twice: two ids, one job succeeded and
\* the other failed.
C11_Witness ==
    \E j, k \in DOMAIN pc :
        /\ j # k
        /\ args[j].repo_url = args[k].repo_url
        /\ args[j].pr_number = args[k].pr_number
        /\ ReMatch(args[j].repo_url)
        /\ runs[j] = 1 /\ runs[k] = 1
        /\ Status(j) = "SUCCESS"
        /\ Status(k) = "FAILURE"

JobStates == {"PENDING", "STARTED", "RUNNING", "SUCCESS", "FAILURE"}

\* C12 as stated: for an id that submit never issued, the status operation
\* answers something other than the states a job can be in.
C12_UnknownIdIsNotFound ==
    (resp.op = "status" /\ resp.code = 200 /\ pc[resp.task_id] = "none")
        => resp.status \notin JobStates

\* C12, amended: for an id that submit never issued, the status operation
\* answers 200 with status PENDING, the answer it gives for a queued job, and
\* the backend holds nothing under that id.
C12_UnknownIdReadsPending ==
    \A j \in DOMAIN pc :
        (resp.op = "status" /\ resp.code = 200 => resp.task_id = j) =>
            ( (resp.op = "status" /\ pc[j] = "none") =>
                /\ resp = [op |-> "status", code |-> 200, task_id |-> j,
                           status |-> "PENDING"]
                /\ backend[j] = NoKey )

\* The status of an id was asked for before any submit issued it.
C12_Witness ==
    \E j \in DOMAIN pc :
        /\ pc[j] = "none"
        /\ resp = [op |-> "status", code |-> 200, task_id |-> j, status |-> "PENDING"]

\* C13: while a worker is running job j, the status operation reports the
\* running state.
C13_RunningIsReported ==
    [][\A j \in DOMAIN pc :
          (get_task_status(j) /\ pc[j] \in {"fetch", "analyze", "blocked"})
              => resp'.status \in {"STARTED", "RUNNING"}]_vars

\* The PR of job j has no changed files and the job is over.
EmptyPrDone(j) ==
    pc[j] = "done" /\ provider[j].outcome = "ok" /\ provider[j].files = << >>

\* C14: a job whose PR has no changed files ends SUCCESS with a report whose
\* files are empty and whose three counts are 0, and the critic was not called.
C14_ZeroFilePr ==
    \A j \in DOMAIN pc :
        EmptyPrDone(j) =>
            /\ Status(j) = "SUCCESS"
            /\ IsReport(backend[j].result)
            /\ backend[j].result.files = << >>
            /\ backend[j].result.summary.total_files = 0
            /\ backend[j].result.summary.total_issues = 0
            /\ backend[j].result.summary.critical_issues = 0
            /\ CriticCalls(j) = 0
            /\ critic_log[j] = << >>

\* A job over an empty PR whose result was fetched.
C14_Witness ==
    \E j \in DOMAIN pc :
        /\ EmptyPrDone(j)
        /\ resp.op = "results" /\ resp.task_id = j /\ resp.status = "SUCCESS"
        /\ resp.results # EmptyDict

\* C15: every job that was queued reaches SUCCESS or FAILURE.
C15_EveryJobTerminates ==
    \A j \in TaskIds : (pc[j] = "queued") ~> (pc[j] = "done" /\ Terminal(j))

\* The enumerations as C16 states them.
ClaimedTypes == {"style", "bug", "performance", "security", "best_practice"}
ClaimedSeverities == {"critical", "high", "medium", "low"}

AllEnumerated(issues) ==
    \A i \in 1..Len(issues) :
        issues[i].type \in ClaimedTypes /\ issues[i].severity \in ClaimedSeverities

\* What C16 says the issue list of a file is, for a critic answer o.
ClaimedIssues(o) == IF AllEnumerated(o.issues) THEN o.issues ELSE << >>

\* C16: for every critic answer that parsed, each analyzer of the repository
\* (analyze_file of app/tasks.py, AICodeAnalysisService.analyze_file with
\* app/schemas.py) adopts the issue list unchanged and in order when every
\* type and severity is enumerated, and yields an empty list otherwise.
C16_EnumeratedAnswerAdopted ==
    \A j \in DOMAIN pc : \A i \in 1..Len(critic_log[j]) :
        LET o == critic_log[j][i]
            f == pr_files[j][i]
        IN o.kind = "json" =>
             /\ analyze_file(f.content, f.name, o).value.issues = ClaimedIssues(o)
             /\ AICodeAnalysisService_analyze_file(f.name, o).value.issues = ClaimedIssues(o)

\* C17: in every stored report, summary.critical_issues is at most
\* summary.total_issues.
C17_CriticalAtMostTotal ==
    \A j \in DOMAIN pc :
        Status(j) = "SUCCESS" =>
            backend[j].result.summary.critical_issues
                <= backend[j].result.summary.total_issues

\* The label C18 states for a file name: the table entry of the lowercased text
\* after the last ".", "Unknown" when the name has no ".".
ClaimedLanguage(filename) ==
    IF \E i \in 1..Len(filename) : filename[i] = "."
    THEN extension_map(<<".">> \o Lower(SplitLast(filename)))
    ELSE "Unknown"

\* C18: the language recorded for every analyzed file is the table entry of its
\* lowercased final extension, and "Unknown" for a name without a ".".
C18_LanguageOfFinalExtension ==
    \A j \in DOMAIN pc : \A i \in 1..Len(analysis_results[j]) :
        LET file_info == analysis_results[j][i].file_info
        IN file_info.language = ClaimedLanguage(file_info.name)

\* C19: a submission whose enqueuing fails is answered with code 500 and the
\* fixed detail, which is no exception text, carries no task id, and changes
\* nothing of any job: the id has no stored meta and no task a worker could take.
C19_EnqueueFailureIsGeneric ==
    /\ [][\A j \in DOMAIN pc :
            (analyze_pr(j) /\ resp'.code = 500) =>
                /\ resp'.detail = "Internal Server Error, failed to create analysis task"
                /\ resp'.detail \notin BrokerErrors
                /\ "task_id" \notin DOMAIN resp'
                /\ UNCHANGED <<pc, args, runs, provider, execVars, backend>>]_vars
    /\ [](\A j \in DOMAIN pc :
            pc[j] = "none" =>
                /\ backend[j] = NoKey
                /\ Status(j) = "PENDING"
                /\ ~ENABLED Dequeue(j)
                /\ ~ENABLED fetch_pr_files(j))

\* The last submission failed to enqueue and no job exists.
C19_Witness ==
    /\ resp.op = "analyze-pr"
    /\ resp.code = 500
    /\ \A j \in DOMAIN pc : pc[j] = "none" /\ backend[j] = NoKey

\* What can be observed of job j: its log (without the task id, which Celery
\* draws per submission), its stored meta and the answers to a status and a
\* result query.
Observed(j) ==
    LET log == LogLines(j)
        meta == get_task_meta(j)
    IN [log |-> [i \in 1..Len(log) |-> [log[i] EXCEPT !.task_id = ""]],
        stored |-> backend[j],
        status |-> meta.status,
        results |-> IF meta.status = "SUCCESS" THEN meta.result ELSE EmptyDict]

\* Jobs a and b were submitted with the same request but for the token and met
\* the same provider and critic answers up to the same point.
SameRunButToken(a, b) ==
    /\ pc[a] # "none" /\ pc[b] = pc[a]
    /\ args[a].repo_url = args[b].repo_url
    /\ args[a].pr_number = args[b].pr_number
    /\ provider[a] = provider[b]
    /\ critic_log[a] = critic_log[b]

\* C20: the token of a submission is in no log record and not in the stored
\* exception of its job, and two jobs that differ only in the token and met the
\* same provider and critic answers have the same log, stored meta and answers.
C20_TokenNotObservable ==
    /\ \A j \in DOMAIN pc :
          args[j].github_token # "None" =>
              /\ LET log == LogLines(j)
                 IN \A i \in 1..Len(log) : log[i].text # args[j].github_token
              /\ Status(j) = "FAILURE" =>
                    backend[j].result.exc_type # args[j].github_token
    /\ \A a, b \in DOMAIN pc :
          (a # b /\ SameRunButToken(a, b)) => Observed(a) = Observed(b)

\* Two jobs with different tokens, the same URL, listing and critic answer, one
\* analyzed file each, both finished.
C20_Witness ==
    \E a, b \in DOMAIN pc :
        /\ SameRunButToken(a, b)
        /\ args[a].github_token # args[b].github_token
        /\ Status(a) = "SUCCESS"
        /\ Len(backend[a].result.files) = 1

\* The same two jobs, both failed in the fetch step.
C20_WitnessFailure ==
    \E a, b \in DOMAIN pc :
        /\ SameRunButToken(a, b)
        /\ args[a].github_token # args[b].github_token
        /\ Status(a) = "FAILURE"
        /\ provider[a].outcome = "error"

\* C21: a listed file whose content is a directory or cannot be fetched or
\* decoded does not end the job in the fetch step: the step returns the files
\* whose content was fetched, in listing order, and stores nothing. A stored
\* report has exactly those files and counts them in total_files, a job that
\* ends in FAILURE after its fetch returned failed inside analyze_file, and a
\* job whose files were all dropped ends in SUCCESS.
C21_DroppedFilesDoNotFailJob ==
    /\ [][\A j \in DOMAIN pc :
            (fetch_pr_files(j) /\ provider'[j].outcome = "ok") =>
                /\ pc'[j] = "analyze"
                /\ backend'[j] = backend[j]
                /\ Len(pr_files'[j]) = Len(Kept(provider'[j].files))
                /\ \A k \in 1..Len(pr_files'[j]) :
                      pr_files'[j][k].name = Kept(provider'[j].files)[k].filename]_vars
    /\ [](\A j \in DOMAIN pc :
            AnalysisOver(j) =>
                LET kept == Kept(provider[j].files)
                IN /\ Status(j) = "SUCCESS" =>
                        LET report == backend[j].result
                        IN /\ Len(report.files) = Len(kept)
                           /\ \A k \in 1..Len(kept) :
                                 report.files[k].file_info.name = kept[k].filename
                           /\ report.summary.total_files = Len(kept)
                   /\ Status(j) = "FAILURE" =>
                        /\ critic_log[j] # << >>
                        /\ Last(critic_log[j]).kind = "setup_error"
                   /\ kept = << >> => Status(j) = "SUCCESS")

\* Two listed files, the first one dropped, the second one in the report.
C21_Witness ==
    \E j \in DOMAIN pc :
        /\ AnalysisOver(j)
        /\ Len(provider[j].files) = 2
        /\ provider[j].files[1].contents # "file"
        /\ provider[j].files[2].contents = "file"
        /\ Status(j) = "SUCCESS"
        /\ Len(backend[j].result.files) = 1

\* Two listed files, a directory and one whose content failed: both dropped.
C21_WitnessAllDropped ==
    \E j \in DOMAIN pc :
        /\ AnalysisOver(j)
        /\ Len(provider[j].files) = 2
        /\ provider[j].files[1].contents = "dir"
        /\ provider[j].files[2].contents = "error"
        /\ Status(j) = "SUCCESS"
        /\ backend[j].result.files = << >>
        /\ backend[j].result.summary.total_files = 0

\* The sum of the tallies (field total_issues or critical_issues of the
\* summary) of the accepted answers of a critic log.
RECURSIVE AcceptedTally(_, _)
AcceptedTally(log, field) ==
    IF log = << >> THEN 0
    ELSE (IF SchemaValid(Head(log)) THEN Head(log).summary[field] ELSE 0)
         + AcceptedTally(Tail(log), field)

\* C22: the entry of a file whose critic call failed has no issues and the
\* tallies 0 and 0, the running totals of a job are the totals over the files
\* whose answer was accepted, and so are the two issue totals of a stored report.
C22_DegradedContributesZero ==
    \A j \in DOMAIN pc :
        /\ \A k \in 1..Len(analysis_results[j]) :
              CriticFailed(critic_log[j][k]) =>
                  /\ analysis_results[j][k].issues = << >>
                  /\ analysis_results[j][k].summary.total_issues = 0
                  /\ analysis_results[j][k].summary.critical_issues = 0
        /\ total_issues[j] = AcceptedTally(critic_log[j], "total_issues")
        /\ critical_issues[j] = AcceptedTally(critic_log[j], "critical_issues")
        /\ Status(j) = "SUCCESS" =>
              /\ backend[j].result.summary.total_issues
                    = AcceptedTally(critic_log[j], "total_issues")
              /\ backend[j].result.summary.critical_issues
                    = AcceptedTally(critic_log[j], "critical_issues")

\* A report of two files: the critic failed for the first, and its answer for
\* the second, with the tallies 1 and 1, was accepted.
C22_Witness ==
    \E j \in DOMAIN pc :
        /\ Status(j) = "SUCCESS"
        /\ Len(critic_log[j]) = 2
        /\ CriticFailed(critic_log[j][1])
        /\ SchemaValid(critic_log[j][2])
        /\ critic_log[j][2].summary.total_issues = 1
        /\ critic_log[j][2].summary.critical_issues = 1
        /\ backend[j].result.summary.total_issues = 1

====
